---- MODULE Spec2Model ----
(***************************************************************************)
(* Model of btw5-switch.py: a script that switches the Creative BT-W5      *)
(* dongle between AptX Adaptive High Quality and Low Latency mode with one *)
(* 65-byte control transfer.                                               *)
(*                                                                         *)
(* The script is a straight line of statements.  Each action below is one  *)
(* statement group of the script, in source order; pc names the statement  *)
(* about to run.  The environment's answers (who runs the script, the      *)
(* command line, what is on the bus, whether a library call raises) are    *)
(* chosen nondeterministically.  trace is the history of every library     *)
(* call, print and exit the run has made, in order.                        *)
(*                                                                         *)
(* Library calls the script does not guard (usb.core.find,                 *)
(* is_kernel_driver_active, dispose_resources) are taken to return         *)
(* normally; guarded calls may raise the exception the handler names, and  *)
(* where the handler only names usb.core.USBError, another exception that  *)
(* propagates uncaught.                                                    *)
(***************************************************************************)
EXTENDS Integers, Sequences, FiniteSets

VARIABLES pc, euid, argv, bus, kernelBound, boundAtStart,
          mode, dev, i, reattach, data, result, trace, status

vars == <<pc, euid, argv, bus, kernelBound, boundAtStart,
          mode, dev, i, reattach, data, result, trace, status>>

(* ---------------------------- bounds ---------------------------------- *)

\* longest command line (tokens after the script name) that is explored
MaxArgs == 2

(* --------------------- constants of the script ------------------------ *)

idVendor == 1054        \* 0x041e
idProduct == 12592      \* 0x3130
bmRequestType == 33     \* 0x21
bRequest == 9           \* 0x09
wValue == 515           \* 0x203
wIndex == 0             \* 0x00
PayloadLen == 65

data_hq == <<3, 90, 107, 3, 10, 3, 64>>   \* 03 5a 6b 03 0a 03 40
data_ll == <<3, 90, 107, 3, 10, 3, 32>>   \* 03 5a 6b 03 0a 03 20

\* choices=['hq', 'll'] of the positional argument
choices_any == {"hq", "ll", "xx"}
choices == {"hq", "ll"}

(* ------------------------- the environment ---------------------------- *)

\* effective uids: root and an ordinary user
Uids == {0, 1000}

\* command-line tokens: the two modes, an unknown word, the help option
Tokens == {"hq", "ll", "xx", "-h"}

ArgvSet == UNION {[1..n -> Tokens] : n \in 0..MaxArgs}

\* USB devices that may be plugged in: the BT-W5 and two that differ from it
\* in the product id or in the vendor id
BTW5 == [idVendor |-> idVendor, idProduct |-> idProduct]
Devices == {BTW5,
            [idVendor |-> idVendor, idProduct |-> idProduct + 1],
            [idVendor |-> idVendor + 1, idProduct |-> idProduct]}

(* --------------------------- the history ------------------------------ *)

\* one entry of trace: a call (op, args, payload) and what it returned (ret,
\* n), and whether the kernel driver was bound when it was made
Ev(op, a, p, ret, n) ==
    [op |-> op, args |-> a, payload |-> p, ret |-> ret, n |-> n,
     driverBound |-> kernelBound]

\* sys.exit(message): the message goes to stderr and the status is 1
sys_exit(tr, msg) ==
    /\ trace' = Append(tr, Ev("sys.exit", <<>>, <<>>, msg, 1))
    /\ status' = 1
    /\ pc' = "exited"

\* an exception no handler catches: traceback on stderr, status 1
uncaught(tr, exc) ==
    /\ trace' = Append(tr, Ev("traceback", <<>>, <<>>, exc, 1))
    /\ status' = 1
    /\ pc' = "exited"

(* ------------------------- pure functions ----------------------------- *)

\* argparse with one positional 'mode' (choices) and the default -h option:
\* tokens are consumed left to right; -h prints the help and exits 0 as soon
\* as it is met; the first positional must be one of the choices; further
\* positionals are unrecognized arguments; a missing mode is an error.
RECURSIVE parse_from(_, _, _, _)
parse_from(av, k, m, extras) ==
    IF k > Len(av)
    THEN IF m = "unset" \/ extras
         THEN [kind |-> "error", mode |-> "unset", code |-> 2]
         ELSE [kind |-> "ok", mode |-> m, code |-> 0]
    ELSE IF av[k] = "-h"
    THEN [kind |-> "help", mode |-> "unset", code |-> 0]
    ELSE IF m = "unset"
    THEN IF av[k] \in choices
         THEN parse_from(av, k + 1, av[k], extras)
         ELSE [kind |-> "error", mode |-> "unset", code |-> 2]
    ELSE parse_from(av, k + 1, m, TRUE)

parse_args(av) == parse_from(av, 1, "unset", FALSE)

\* usb.core.find(idVendor=..., idProduct=...): a matching device or None
find(b, vid, pid) ==
    IF \E d \in b : d.idVendor = vid /\ d.idProduct = pid
    THEN "dev" ELSE "None"

\* list(itertools.chain(data, [0x00] * (65 - len(data))))
pad_short(d) == d \o [j \in 1..(PayloadLen - 1 - Len(d)) |-> 0]
pad(d) == d \o [j \in 1..(PayloadLen - Len(d)) |-> 0]

\* not (result != len(data))
complete_lax(r, d) == r <= Len(d)
complete(r, d) == r = Len(d)

(* ------------------------------ Init ---------------------------------- *)

Init ==
    /\ pc = "geteuid"
    /\ euid \in Uids
    /\ argv \in ArgvSet
    /\ bus \in SUBSET Devices
    /\ kernelBound \in BOOLEAN
    /\ boundAtStart = kernelBound
    /\ mode = "unset"
    /\ dev = "unset"
    /\ i = -1
    /\ reattach = FALSE
    /\ data = <<>>
    /\ result = -1
    /\ trace = <<>>
    /\ status = -1

(* ----------------------------- actions -------------------------------- *)

\* if os.geteuid() != 0: sys.exit(...)
CheckRoot ==
    /\ pc = "geteuid"
    /\ LET tr == Append(trace, Ev("geteuid", <<>>, <<>>, "ok", euid))
       IN IF euid # 0
          THEN sys_exit(tr, "This script must be run as root.")
          ELSE /\ trace' = tr
               /\ pc' = "parse_args"
               /\ UNCHANGED status
    /\ UNCHANGED <<euid, argv, bus, kernelBound, boundAtStart,
                   mode, dev, i, reattach, data, result>>

\* args = parser.parse_args()
ParseArgs ==
    /\ pc = "parse_args"
    /\ LET r == parse_args(argv)
           tr == Append(trace, Ev("parse_args", <<>>, <<>>, r.kind, r.code))
       IN IF r.kind = "ok"
          THEN /\ trace' = tr
               /\ mode' = r.mode
               /\ pc' = "find"
               /\ UNCHANGED status
          ELSE /\ trace' = tr
               /\ status' = r.code
               /\ pc' = "exited"
               /\ UNCHANGED mode
    /\ UNCHANGED <<euid, argv, bus, kernelBound, boundAtStart,
                   dev, i, reattach, data, result>>

\* dev = usb.core.find(...); if dev is None: sys.exit(...)
FindDevice_unchecked ==
    /\ pc = "find"
    /\ LET d == find(bus, idVendor, idProduct)
       IN /\ dev' = d
          /\ trace' = Append(trace, Ev("find", <<idVendor, idProduct>>, <<>>, d, 0))
          /\ pc' = "get_config"
          /\ UNCHANGED status
    /\ UNCHANGED <<euid, argv, bus, kernelBound, boundAtStart,
                   mode, i, reattach, data, result>>

FindDevice ==
    /\ pc = "find"
    /\ LET d == find(bus, idVendor, idProduct)
           tr == Append(trace, Ev("find", <<idVendor, idProduct>>, <<>>, d, 0))
       IN /\ dev' = d
          /\ IF d = "None"
             THEN sys_exit(tr, "BT-W5 device not found.")
             ELSE /\ trace' = tr
                  /\ pc' = "get_config"
                  /\ UNCHANGED status
    /\ UNCHANGED <<euid, argv, bus, kernelBound, boundAtStart,
                   mode, i, reattach, data, result>>

\* cfg = dev.get_active_configuration(); intf = cfg[(0, 0)]; ep = intf[0];
\* i = intf.bInterfaceNumber   except Exception: sys.exit(...)
GetConfig ==
    /\ pc = "get_config"
    /\ \E out \in (IF dev = "dev" THEN {"ok", "USBError", "IndexError"}
                               ELSE {"AttributeError"}) :
         LET tr == Append(trace, Ev("get_active_configuration", <<>>, <<>>, out, 0))
         IN IF out = "ok"
            THEN /\ i' = 0
                 /\ trace' = tr
                 /\ pc' = "is_active"
                 /\ UNCHANGED status
            ELSE /\ sys_exit(tr, "Failed to retrieve the device configuration")
                 /\ UNCHANGED i
    /\ UNCHANGED <<euid, argv, bus, kernelBound, boundAtStart,
                   mode, dev, reattach, data, result>>

\* reattach = False; if dev.is_kernel_driver_active(i):
CheckDriver_set ==
    /\ pc = "is_active"
    /\ reattach' = TRUE
    /\ trace' = Append(trace, Ev("is_kernel_driver_active", <<i>>, <<>>,
                                 IF kernelBound THEN "True" ELSE "False", 0))
    /\ pc' = IF kernelBound THEN "detach" ELSE "select"
    /\ UNCHANGED <<euid, argv, bus, kernelBound, boundAtStart,
                   mode, dev, i, data, result, status>>

CheckDriver ==
    /\ pc = "is_active"
    /\ reattach' = FALSE
    /\ trace' = Append(trace, Ev("is_kernel_driver_active", <<i>>, <<>>,
                                 IF kernelBound THEN "True" ELSE "False", 0))
    /\ pc' = IF kernelBound THEN "detach" ELSE "select"
    /\ UNCHANGED <<euid, argv, bus, kernelBound, boundAtStart,
                   mode, dev, i, data, result, status>>

\* try: dev.detach_kernel_driver(i); reattach = True
\* except usb.core.USBError: sys.exit(...)
Detach_forget ==
    /\ pc = "detach"
    /\ \E out \in {"ok", "USBError", "NotImplementedError"} :
         LET tr == Append(trace, Ev("detach_kernel_driver", <<i>>, <<>>, out, 0))
         IN CASE out = "ok" ->
                   /\ kernelBound' = FALSE
                   /\ UNCHANGED reattach
                   /\ trace' = tr
                   /\ pc' = "select"
                   /\ UNCHANGED status
              [] out = "USBError" ->
                   /\ sys_exit(tr, "Could not detach kernel driver")
                   /\ UNCHANGED <<kernelBound, reattach>>
              [] OTHER ->
                   /\ uncaught(tr, out)
                   /\ UNCHANGED <<kernelBound, reattach>>
    /\ UNCHANGED <<euid, argv, bus, boundAtStart, mode, dev, i, data, result>>

Detach ==
    /\ pc = "detach"
    /\ \E out \in {"ok", "USBError", "NotImplementedError"} :
         LET tr == Append(trace, Ev("detach_kernel_driver", <<i>>, <<>>, out, 0))
         IN CASE out = "ok" ->
                   /\ kernelBound' = FALSE
                   /\ reattach' = TRUE
                   /\ trace' = tr
                   /\ pc' = "select"
                   /\ UNCHANGED status
              [] out = "USBError" ->
                   /\ sys_exit(tr, "Could not detach kernel driver")
                   /\ UNCHANGED <<kernelBound, reattach>>
              [] OTHER ->
                   /\ uncaught(tr, out)
                   /\ UNCHANGED <<kernelBound, reattach>>
    /\ UNCHANGED <<euid, argv, bus, boundAtStart, mode, dev, i, data, result>>

\* if args.mode == "hq": data = data_hq; print(...)
\* else: data = data_ll; print(...)
SelectData ==
    /\ pc = "select"
    /\ IF mode = "hq"
       THEN /\ data' = data_hq
            /\ trace' = Append(trace, Ev("print", <<>>, <<>>,
                   "Switching to AptX Adaptive High Quality mode...", 0))
       ELSE /\ data' = data_ll
            /\ trace' = Append(trace, Ev("print", <<>>, <<>>,
                   "Switching to AptX Adaptive Low Latency mode...", 0))
    /\ pc' = "pad"
    /\ UNCHANGED <<euid, argv, bus, kernelBound, boundAtStart,
                   mode, dev, i, reattach, result, status>>

\* data = list(itertools.chain(data, [0x00] * (65 - len(data))))
PadData ==
    /\ pc = "pad"
    /\ data' = pad(data)
    /\ pc' = "ctrl_transfer"
    /\ UNCHANGED <<euid, argv, bus, kernelBound, boundAtStart,
                   mode, dev, i, reattach, result, trace, status>>

\* try: result = dev.ctrl_transfer(0x21, 0x09, wValue=0x203, wIndex=0x00,
\*                                 data_or_wLength=data)
\*      if result != len(data): raise usb.core.USBError(...)
\*      print("Mode switch successful.")
\* except usb.core.USBError: sys.exit(...)
CtrlTransfer_print_first ==
    /\ pc = "ctrl_transfer"
    /\ \E out \in {"ok", "USBError", "ValueError"} :
       \E n \in (IF out = "ok" THEN 0..Len(data) ELSE {-1}) :
         LET tr == Append(trace, Ev("ctrl_transfer",
                                    <<bmRequestType, bRequest, wValue, wIndex>>,
                                    data, out, n))
         IN CASE out = "USBError" ->
                   /\ sys_exit(tr, "Failed to send control transfer")
                   /\ UNCHANGED result
              [] out = "ok" ->
                   /\ result' = n
                   /\ IF complete(n, data)
                      THEN /\ trace' = Append(tr, Ev("print", <<>>, <<>>, "Mode switch successful.", 0))
                           /\ pc' = "reattach"
                           /\ UNCHANGED status
                      ELSE sys_exit(Append(tr, Ev("print", <<>>, <<>>, "Mode switch successful.", 0)),
                                    "Failed to send control transfer: Incomplete control transfer.")
              [] OTHER ->
                   /\ uncaught(tr, out)
                   /\ UNCHANGED result
    /\ UNCHANGED <<euid, argv, bus, kernelBound, boundAtStart,
                   mode, dev, i, reattach, data>>

CtrlTransfer ==
    /\ pc = "ctrl_transfer"
    /\ \E out \in {"ok", "USBError", "ValueError"} :
       \E n \in (IF out = "ok" THEN 0..Len(data) ELSE {-1}) :
         LET tr == Append(trace, Ev("ctrl_transfer",
                                    <<bmRequestType, bRequest, wValue, wIndex>>,
                                    data, out, n))
         IN CASE out = "USBError" ->
                   /\ sys_exit(tr, "Failed to send control transfer")
                   /\ UNCHANGED result
              [] out = "ok" ->
                   /\ result' = n
                   /\ IF complete(n, data)
                      THEN /\ trace' = Append(tr, Ev("print", <<>>, <<>>, "Mode switch successful.", 0))
                           /\ pc' = "reattach"
                           /\ UNCHANGED status
                      ELSE sys_exit(tr, "Failed to send control transfer: Incomplete control transfer.")
              [] OTHER ->
                   /\ uncaught(tr, out)
                   /\ UNCHANGED result
    /\ UNCHANGED <<euid, argv, bus, kernelBound, boundAtStart,
                   mode, dev, i, reattach, data>>

\* if reattach: try: dev.attach_kernel_driver(i)
\*              except usb.core.USBError: sys.exit(...)
Reattach_swallow ==
    /\ pc = "reattach"
    /\ IF reattach
       THEN \E out \in {"ok", "USBError", "NotImplementedError"} :
              LET tr == Append(trace, Ev("attach_kernel_driver", <<i>>, <<>>, out, 0))
              IN CASE out = "ok" ->
                        /\ kernelBound' = TRUE
                        /\ trace' = tr
                        /\ pc' = "dispose"
                        /\ UNCHANGED status
                   [] out = "USBError" ->
                        /\ trace' = tr
                        /\ pc' = "dispose"
                        /\ UNCHANGED <<kernelBound, status>>
                   [] OTHER ->
                        /\ uncaught(tr, out)
                        /\ UNCHANGED kernelBound
       ELSE /\ pc' = "dispose"
            /\ UNCHANGED <<kernelBound, trace, status>>
    /\ UNCHANGED <<euid, argv, bus, boundAtStart, mode, dev, i, reattach, data, result>>

Reattach ==
    /\ pc = "reattach"
    /\ IF reattach
       THEN \E out \in {"ok", "USBError", "NotImplementedError"} :
              LET tr == Append(trace, Ev("attach_kernel_driver", <<i>>, <<>>, out, 0))
              IN CASE out = "ok" ->
                        /\ kernelBound' = TRUE
                        /\ trace' = tr
                        /\ pc' = "dispose"
                        /\ UNCHANGED status
                   [] out = "USBError" ->
                        /\ sys_exit(tr, "Could not reattach kernel driver")
                        /\ UNCHANGED kernelBound
                   [] OTHER ->
                        /\ uncaught(tr, out)
                        /\ UNCHANGED kernelBound
       ELSE /\ pc' = "dispose"
            /\ UNCHANGED <<kernelBound, trace, status>>
    /\ UNCHANGED <<euid, argv, bus, boundAtStart, mode, dev, i, reattach, data, result>>

\* usb.util.dispose_resources(dev), then the script ends: status 0
Dispose ==
    /\ pc = "dispose"
    /\ trace' = Append(trace, Ev("dispose_resources", <<>>, <<>>, "ok", 0))
    /\ status' = 0
    /\ pc' = "exited"
    /\ UNCHANGED <<euid, argv, bus, kernelBound, boundAtStart,
                   mode, dev, i, reattach, data, result>>

Next ==
    \/ CheckRoot
    \/ ParseArgs
    \/ FindDevice
    \/ GetConfig
    \/ CheckDriver
    \/ Detach
    \/ SelectData
    \/ PadData
    \/ CtrlTransfer
    \/ Reattach
    \/ Dispose

Spec == Init /\ [][Next]_vars

(* ------------------- vocabulary of the properties --------------------- *)

Idx == DOMAIN trace

\* calls that touch the USB device or its driver binding
DeviceOps == {"find", "get_active_configuration", "is_kernel_driver_active",
              "detach_kernel_driver", "ctrl_transfer", "attach_kernel_driver",
              "dispose_resources"}

IsCall(e) == e.op \notin {"print", "sys.exit", "traceback"}

\* the calls of the run, in order, by name
CallOps ==
    LET c == SelectSeq(trace, IsCall)
    IN [k \in 1..Len(c) |-> c[k].op]

Exited == pc = "exited"

Confirmation == "Mode switch successful."

Printed == \E k \in Idx : trace[k].op = "print" /\ trace[k].ret = Confirmation

\* the argument parser met -h and printed the help
HelpRun == \E k \in Idx : trace[k].op = "parse_args" /\ trace[k].ret = "help"

\* a step of the run that did not succeed
StepFailed(e) ==
    \/ e.op = "geteuid" /\ e.n # 0
    \/ e.op = "find" /\ e.ret = "None"
    \/ e.op = "ctrl_transfer" /\ (e.ret # "ok" \/ e.n # 65)
    \/ e.op \in {"parse_args", "get_active_configuration",
                 "detach_kernel_driver", "attach_kernel_driver"} /\ e.ret # "ok"

\* the steps of a fully successful run, in order
ExpectedOps(bound) ==
    <<"geteuid", "parse_args", "find", "get_active_configuration",
      "is_kernel_driver_active">>
    \o (IF bound THEN <<"detach_kernel_driver">> ELSE <<>>)
    \o <<"ctrl_transfer">>
    \o (IF bound THEN <<"attach_kernel_driver">> ELSE <<>>)
    \o <<"dispose_resources">>

AllStepsSucceeded ==
    /\ CallOps = ExpectedOps(boundAtStart)
    /\ \A k \in Idx : ~StepFailed(trace[k])

\* the step at k ended the run: nothing is called after it, status non-zero
EndsRun(k) ==
    /\ Exited
    /\ status \notin {-1, 0}
    /\ \A j \in Idx : j > k => ~IsCall(trace[j])

\* the 65 bytes the device expects for a mode
ExpectedPayload(m) ==
    [j \in 1..65 |-> IF j <= 6 THEN <<3, 90, 107, 3, 10, 3>>[j]
                     ELSE IF j = 7 THEN (IF m = "hq" THEN 64 ELSE 32)
                     ELSE 0]

\* the command line names no mode, or names a word that is not a mode
BadMode ==
    LET pos == SelectSeq(argv, LAMBDA t : t # "-h")
    IN pos = <<>> \/ \E k \in DOMAIN pos : pos[k] \notin {"hq", "ll"}

(* ------------------------------ claims -------------------------------- *)

\* C1 (as stated): a run exits with status 0 if and only if every step
\* succeeds in order (root check, mode validation, device lookup,
\* configuration retrieval, detach when bound, transfer returning 65,
\* reattach when detached); the first failing step ends the run with a
\* non-zero status and no later step runs.
C1_ExitZeroIffAllSteps ==
    /\ status = 0 <=> (Exited /\ AllStepsSucceeded)
    /\ \A k \in Idx : StepFailed(trace[k]) => EndsRun(k)

\* C1 (amended): a run exits with status 0 if and only if the argument
\* parser met the help option -h before any argument error, or every step
\* succeeds in order; a step that fails otherwise ends the run with a
\* non-zero status, and in either case no later step runs.
C1_ExitZeroIffHelpOrAllSteps ==
    /\ status = 0 <=> (Exited /\ (HelpRun \/ AllStepsSucceeded))
    /\ \A k \in Idx :
         StepFailed(trace[k]) =>
           IF trace[k].op = "parse_args" /\ trace[k].ret = "help"
           THEN Exited /\ status = 0 /\ k = Len(trace)
           ELSE EndsRun(k)

C1_Witness ==
    /\ Exited /\ status = 0 /\ boundAtStart /\ AllStepsSucceeded
    /\ argv = <<"hq">>

\* C2: every control transfer has request-type 0x21, request 0x09, value
\* 0x203, index 0 and a 65-byte data stage equal to the payload of the mode
\* named on the command line.
C2_TransferIsExact ==
    \A k \in Idx :
      trace[k].op = "ctrl_transfer" =>
        /\ trace[k].args = <<33, 9, 515, 0>>
        /\ Len(trace[k].payload) = 65
        /\ Len(argv) = 1 /\ argv[1] \in {"hq", "ll"}
        /\ trace[k].payload = ExpectedPayload(argv[1])

C2_Witness ==
    \E k \in Idx : /\ trace[k].op = "ctrl_transfer"
                   /\ argv = <<"ll">>
                   /\ trace[k].payload[7] = 32

C4_NotFoundStopsRun ==
    \A k \in Idx :
      (trace[k].op = "find" /\ trace[k].ret = "None") =>
        /\ Exited
        /\ status \notin {-1, 0}
        /\ \A j \in Idx : j # k => trace[j].op \notin DeviceOps

C4_Witness ==
    /\ Exited /\ dev = "None" /\ BTW5 \notin bus /\ bus # {}
    /\ \E k \in Idx : trace[k].op = "find"

\* C5: when is_kernel_driver_active returned false, attach_kernel_driver is
\* never called in the run, whatever the transfer does.
C5_NoAttachWhenNotBound ==
    (\E k \in Idx : trace[k].op = "is_kernel_driver_active" /\ trace[k].ret = "False")
      => \A j \in Idx : trace[j].op # "attach_kernel_driver"

C5_Witness ==
    /\ Exited /\ status = 0
    /\ \E k \in Idx : trace[k].op = "is_kernel_driver_active" /\ trace[k].ret = "False"
    /\ \E k \in Idx : trace[k].op = "ctrl_transfer"

\* C6: a transfer that returns normally with a length other than 65 is a
\* failure: the confirmation is not printed and the run ends at once through
\* sys.exit with a non-zero status, as for a transport error.
C6_ShortTransferFails ==
    \A k \in Idx :
      (trace[k].op = "ctrl_transfer" /\ trace[k].ret = "ok" /\ trace[k].n # 65) =>
        /\ ~Printed
        /\ Exited
        /\ status = 1
        /\ Len(trace) = k + 1
        /\ trace[k + 1].op = "sys.exit"

C6_Witness ==
    /\ Exited
    /\ \E k \in Idx : trace[k].op = "ctrl_transfer" /\ trace[k].ret = "ok"
                      /\ trace[k].n = 64

\* C7: once the device lookup has succeeded, dispose_resources is called on
\* every exit path of the run.
C7_DisposeOnEveryExit ==
    (Exited /\ dev = "dev") =>
      \E k \in Idx : trace[k].op = "dispose_resources"

\* C8: once the kernel driver has been detached, a reattach is attempted
\* before the run ends, on every exit path.
C8_ReattachOnEveryExit ==
    \A k \in Idx :
      (Exited /\ trace[k].op = "detach_kernel_driver" /\ trace[k].ret = "ok") =>
        \E j \in Idx : j > k /\ trace[j].op = "attach_kernel_driver"

\* the driver binding is as it was at the start, and exactly one transfer
\* was issued, while the driver was not bound
BindingRestoredOneTransfer ==
    /\ kernelBound = boundAtStart
    /\ boundAtStart =>
         /\ \E k \in Idx : trace[k].op = "detach_kernel_driver" /\ trace[k].ret = "ok"
         /\ \E k \in Idx : trace[k].op = "attach_kernel_driver" /\ trace[k].ret = "ok"
    /\ ~boundAtStart =>
         \A k \in Idx : trace[k].op \notin {"detach_kernel_driver", "attach_kernel_driver"}
    /\ Cardinality({k \in Idx : trace[k].op = "ctrl_transfer"}) = 1
    /\ \A k \in Idx : trace[k].op = "ctrl_transfer" => ~trace[k].driverBound

\* C9 (as stated): in every run that exits with status 0 the driver binding
\* at exit equals the binding at start and exactly one control transfer was
\* issued, with the kernel driver not bound.
C9_ExitZeroRestoresBinding ==
    status = 0 => BindingRestoredOneTransfer

\* C9 (amended): the same, for every run that exits with status 0 other
\* than a run ended by the help option -h.
C9_ExitZeroNoHelpRestoresBinding ==
    (status = 0 /\ ~HelpRun) => BindingRestoredOneTransfer

C9_Witness ==
    /\ status = 0 /\ ~HelpRun /\ boundAtStart /\ kernelBound
    /\ argv = <<"ll">>

\* C10: the confirmation is printed in exactly the runs whose transfer
\* returned 65, and before any reattach attempt; a run whose reattach fails
\* has printed it and ends with a non-zero status.
C10_ConfirmationIffTransfer65 ==
    /\ Printed <=> \E k \in Idx : trace[k].op = "ctrl_transfer"
                                  /\ trace[k].ret = "ok" /\ trace[k].n = 65
    /\ \A k \in Idx :
         trace[k].op = "attach_kernel_driver" =>
           \E j \in Idx : j < k /\ trace[j].op = "print"
                          /\ trace[j].ret = Confirmation
    /\ \A k \in Idx :
         (trace[k].op = "attach_kernel_driver" /\ trace[k].ret # "ok") =>
           Printed /\ Exited /\ status \notin {-1, 0}

C10_Witness ==
    /\ Exited /\ Printed /\ status = 1
    /\ \E k \in Idx : trace[k].op = "attach_kernel_driver" /\ trace[k].ret = "USBError"

====
